---- MODULE Spec2Model ----
(***************************************************************************)
(* Model of the two scripts of anime-recommendations-eda:                  *)
(*   preprocess.py  main(): load, clean, re-index, save four CSV files     *)
(*   eda.py         main(): build_view, fetch_data, render_console,        *)
(*                          render_html, update the "latest" copy          *)
(* One behaviour is one use of one script.  Nullable values are written    *)
(* Null (= <<>>) or <<v>>.  CSV files are sequences of rows whose text     *)
(* cells are strings, so that read_csv / to_csv / html.unescape are real   *)
(* conversions.                                                            *)
(***************************************************************************)
EXTENDS Integers, Sequences, FiniteSets, TLC

VARIABLES
    script,        \* "preprocess" or "eda": the script this behaviour runs
    pc,            \* position of the running script in its main()
    fs,            \* the files on disk: name -> content, or NoFile
    run,           \* preprocess: 1 = first run, 2 = re-run on its own output
    firstCounts,   \* preprocess: <<anime rows, rating rows>> of the first run
    anime_df,      \* preprocess: the anime DataFrame
    rating_df,     \* preprocess: the rating DataFrame
    user_id_map,   \* preprocess: dict original user id -> dense index
    anime_id_map,  \* preprocess: dict original anime id -> dense index
    fs0,           \* the files on disk when the running script started
    anime,         \* eda: the rows of the anime view (the CSV given by --data)
    report,        \* eda: the value of --report
    tie,           \* eda: how the engine orders rows its ORDER BY leaves tied
    con,           \* eda: the DuckDB connection, "none", "open" or "closed"
    data,          \* eda: the bundle fetch_data returned
    console,       \* eda: the numbers of the sections render_console has printed
    err,           \* the exception that ended the script, or "none"
    log,           \* the calls main() has made and the files it has written, in order
    argv,          \* eda: the --report flag of the command line, Null when absent
    past,          \* eda: the earlier runs into the same output directory
    older          \* eda: the timestamped reports of earlier seconds, oldest first

preVars == <<run, firstCounts, anime_df, rating_df, user_id_map, anime_id_map>>
edaVars == <<anime, report, tie, con, data, console, argv, past, older>>
vars == <<script, pc, err, log, fs, fs0, preVars, edaVars>>

-----------------------------------------------------------------------------
(* Bounds of the model *)

MaxAnime == 1        \* rows of data/raw/anime.csv
MaxRatings == 2      \* rows of data/raw/rating.csv
MaxCopies == 1       \* eda: copies of one kind of row in the anime view
ResidCopies == 2     \* eda: copies of one kind of row, residual tables
MaxRuns == 2         \* eda: runs into the same output directory

-----------------------------------------------------------------------------
(* Generic helpers *)

Null == <<>>
Some(v) == <<v>>
IsNull(x) == x = Null
Val(x) == x[1]

\* a file on disk: absent, or present with its rows
NoFile == [exists |-> FALSE, rows |-> <<>>]
File(rows) == [exists |-> TRUE, rows |-> rows]

Range(s) == {s[i] : i \in 1..Len(s)}

RECURSIVE SeqsUpTo(_, _)
SeqsUpTo(S, n) ==
    IF n = 0 THEN {<<>>}
    ELSE LET shorter == SeqsUpTo(S, n - 1)
         IN  shorter \cup {Append(s, x) : s \in {t \in shorter : Len(t) = n - 1}, x \in S}

-----------------------------------------------------------------------------
(* preprocess.py : conversions *)

\* pandas.read_csv: the default NA tokens of a text cell
NaValues == {"", "NA", "N/A", "NULL", "NaN", "nan", "null", "None", "n/a",
             "<NA>", "#N/A", "#NA", "-NaN", "-nan"}

\* pd.read_csv on a text cell: an NA token reads as NaN, other text as itself
ReadCsvText(cell) == IF cell \in NaValues THEN Null ELSE Some(cell)

\* DataFrame.to_csv on a text value: NaN is written as the empty cell, a
\* string as its characters (no quoting is needed for the texts modelled)
WriteCsvText(v) == IF IsNull(v) THEN "" ELSE Val(v)

\* html.unescape on the texts of the model
HtmlUnescape(t) ==
    CASE t = "&#78;A"          -> "NA"
      [] t = "Gintama&#039;"   -> "Gintama'"
      [] t = "Sci-Fi &amp; Fantasy" -> "Sci-Fi & Fantasy"
      [] OTHER                 -> t

\* lambda x: html.unescape(str(x)) if pd.notna(x) else x
DecodeCell(v) == IF IsNull(v) THEN v ELSE Some(HtmlUnescape(Val(v)))

\* the texts pd.to_numeric parses, with their value
NumericTexts == {"12", "12.0", "24", "24.0"}
NumOf(t) == IF t \in {"12", "12.0"} THEN 12 ELSE 24

\* pd.to_numeric(..., errors="coerce"): unparsable text ('Unknown') -> NaN
ToNumeric(v) ==
    IF IsNull(v) THEN Null
    ELSE IF Val(v) \in NumericTexts THEN Some(NumOf(Val(v))) ELSE Null

\* to_csv of a float column: NaN -> empty cell, 12.0 -> "12.0"
WriteCsvFloat(v) ==
    IF IsNull(v) THEN "" ELSE IF Val(v) = 12 THEN "12.0" ELSE "24.0"

-----------------------------------------------------------------------------
(* preprocess.py : the cleaning steps of main() *)

\* pd.read_csv("anime.csv"): row i of the file becomes the row of index
\* label i; text cells pass through the NA-token test
ReadAnimeCsv(file) ==
    [i \in 1..Len(file) |->
        [index    |-> i,
         anime_id |-> file[i].anime_id,
         name     |-> ReadCsvText(file[i].name),
         genre    |-> ReadCsvText(file[i].genre),
         episodes |-> ReadCsvText(file[i].episodes),
         rating   |-> file[i].rating]]

\* pd.read_csv("rating.csv"): three integer columns
ReadRatingCsv(file) ==
    [i \in 1..Len(file) |->
        [index    |-> i,
         user_id  |-> file[i].user_id,
         anime_id |-> file[i].anime_id,
         rating   |-> file[i].rating]]

\* lines 47-55: decode name and genre, coerce episodes
DecodeAndCoerce(df) ==
    [i \in 1..Len(df) |-> LET r == df[i] IN [r EXCEPT !.name = DecodeCell(r.name),
                                 !.genre = DecodeCell(r.genre),
                                 !.episodes = ToNumeric(r.episodes)]]

DropNaWithEpisodes(df) ==
    SelectSeq(df, LAMBDA r : ~IsNull(r.rating) /\ ~IsNull(r.genre) /\ ~IsNull(r.episodes))
\* line 59: anime_df.dropna(subset=["rating", "genre"])
DropNa(df) == SelectSeq(df, LAMBDA r : ~IsNull(r.rating) /\ ~IsNull(r.genre))

RemoveUnratedNoFilter(df) == df
\* line 70: rating_df[rating_df["rating"] != -1]
RemoveUnrated(df) == SelectSeq(df, LAMBDA r : r.rating # -1)

\* lines 74-76: keep only ratings whose anime_id is in the cleaned anime list
KeepKnownAnimeNoFilter(df, cleaned) == df
KeepKnownAnime(df, cleaned) ==
    LET valid_anime_ids == {cleaned[i].anime_id : i \in 1..Len(cleaned)}
    IN  SelectSeq(df, LAMBDA r : r.anime_id \in valid_anime_ids)

RECURSIVE Unique(_)
\* Series.unique(): the distinct values in order of first appearance
Unique(s) ==
    IF s = <<>> THEN <<>>
    ELSE LET rest == Unique(SubSeq(s, 1, Len(s) - 1))
         IN  IF s[Len(s)] \in Range(rest) THEN rest ELSE Append(rest, s[Len(s)])

RECURSIVE InsertSorted(_, _)
InsertSorted(s, x) ==
    IF s = <<>> THEN <<x>>
    ELSE IF x < Head(s) THEN <<x>> \o s
         ELSE <<Head(s)>> \o InsertSorted(Tail(s), x)

RECURSIVE Sorted(_)
\* sorted(ids): ascending
Sorted(s) == IF s = <<>> THEN <<>> ELSE InsertSorted(Sorted(Tail(s)), Head(s))

\* {uid: idx for idx, uid in enumerate(order)}
Enumerate(order) ==
    [id \in Range(order) |-> (CHOOSE i \in 1..Len(order) : order[i] = id) - 1]

EncodeIdsUnsorted(ids) == Enumerate(Unique(ids))
\* lines 80-84: unique(), sorted(), enumerate()
EncodeIds(ids) == Enumerate(Sorted(Unique(ids)))

\* lines 86-87: the two index columns of rating_df
AddRatingIdx(df, umap, amap) ==
    [i \in 1..Len(df) |-> LET r == df[i] IN [index     |-> r.index,
                        user_id   |-> r.user_id,
                        anime_id  |-> r.anime_id,
                        rating    |-> r.rating,
                        user_idx  |-> umap[r.user_id],
                        anime_idx |-> amap[r.anime_id]]]

\* line 91: the anime_idx column, null where the id has no index
MapAnimeIdx(df, amap) ==
    [i \in 1..Len(df) |-> LET r == df[i] IN [index     |-> r.index,
                        anime_id  |-> r.anime_id,
                        name      |-> r.name,
                        genre     |-> r.genre,
                        episodes  |-> r.episodes,
                        rating    |-> r.rating,
                        anime_idx |-> IF r.anime_id \in DOMAIN amap
                                      THEN Some(amap[r.anime_id]) ELSE Null]]
AddAnimeIdxAll(df, amap) == MapAnimeIdx(df, amap)
\* lines 90-91: keep the anime that were rated, add their anime_idx
AddAnimeIdx(df, amap) ==
    MapAnimeIdx(SelectSeq(df, LAMBDA r : r.anime_id \in DOMAIN amap), amap)

\* anime_df.to_csv(anime_out, index=False)
WriteAnimeCsv(df) ==
    [i \in 1..Len(df) |-> LET r == df[i] IN [anime_id  |-> r.anime_id,
                        name      |-> WriteCsvText(r.name),
                        genre     |-> WriteCsvText(r.genre),
                        episodes  |-> WriteCsvFloat(r.episodes),
                        rating    |-> r.rating,
                        anime_idx |-> r.anime_idx]]

\* rating_df.to_csv(rating_out, index=False)
WriteRatingCsv(df) ==
    [i \in 1..Len(df) |-> LET r == df[i] IN [user_id   |-> r.user_id,
                        anime_id  |-> r.anime_id,
                        rating    |-> r.rating,
                        user_idx  |-> r.user_idx,
                        anime_idx |-> r.anime_idx]]

\* pd.DataFrame(list(id_map.items())).to_csv(...): one row per key, in the
\* dict's insertion order, which is the order of the dense index
WriteMapCsv(idmap) ==
    [i \in 1..Cardinality(DOMAIN idmap) |->
        LET id == CHOOSE k \in DOMAIN idmap : idmap[k] = i - 1
        IN  [id |-> id, idx |-> idmap[id]]]

-----------------------------------------------------------------------------
(* preprocess.py : inputs *)

AnimeIds == {10, 20}
UserIds == {50, 7}

\* the cells a row of data/raw/anime.csv may hold, apart from its anime_id:
\* a complete row, one with 'Unknown' episodes, one with no genre, one with
\* no rating, and one whose genre is an entity-encoded text
RawAnimeCells ==
    { [name |-> "Gintama&#039;", genre |-> "Action", episodes |-> "12",      rating |-> Some(78)],
      [name |-> "Gintama&#039;", genre |-> "Action", episodes |-> "Unknown", rating |-> Some(78)],
      [name |-> "Gintama&#039;", genre |-> "",       episodes |-> "12",      rating |-> Some(78)],
      [name |-> "Gintama&#039;", genre |-> "Action", episodes |-> "Unknown", rating |-> Null],
      [name |-> "Gintama&#039;", genre |-> "&#78;A", episodes |-> "12",      rating |-> Some(78)] }

RawAnimeRows ==
    { [anime_id |-> id, name |-> c.name, genre |-> c.genre,
       episodes |-> c.episodes, rating |-> c.rating] : id \in AnimeIds, c \in RawAnimeCells }

\* a row of data/raw/rating.csv; -1 is "watched but not rated"
RawRatingRows ==
    [user_id : UserIds, anime_id : AnimeIds, rating : {-1, 8}]

PreInputs == {"raw_anime", "raw_rating"}
PreOutputs == {"anime_processed", "rating_processed", "user_id_map", "anime_id_map"}
\* anime_eda_<timestamp>.html of this run, and anime_eda_latest.html
EdaOutputs == {"report_ts", "report_latest"}
Files == PreInputs \cup PreOutputs \cup EdaOutputs

EdaIdle ==
    /\ anime = <<>>
    /\ report = "console"
    /\ tie = "asc"
    /\ con = "none"
    /\ data = <<>>
    /\ console = <<>>
    /\ argv = Null
    /\ past = <<>>
    /\ older = <<>>

InitPre ==
    /\ script = "preprocess"
    /\ pc = "load"
    /\ err = "none"
    /\ log = <<>>
    /\ \E a \in SeqsUpTo(RawAnimeRows, MaxAnime) :
       \E r \in {File(t) : t \in SeqsUpTo(RawRatingRows, MaxRatings)} \cup {NoFile} :
          fs = [f \in Files |->
                  IF f = "raw_anime" THEN File(a)
                  ELSE IF f = "raw_rating" THEN r ELSE NoFile]
    /\ fs0 = fs
    /\ run = 1
    /\ firstCounts = <<0, 0>>
    /\ anime_df = <<>>
    /\ rating_df = <<>>
    /\ user_id_map = <<>>
    /\ anime_id_map = <<>>
    /\ EdaIdle

-----------------------------------------------------------------------------
(* preprocess.py : main() step by step *)

\* lines 34-39: both CSV files are read; a missing file is fatal
PreLoad ==
    /\ script = "preprocess" /\ pc = "load"
    /\ IF ~fs["raw_anime"].exists \/ ~fs["raw_rating"].exists
       THEN /\ pc' = "failed"
            /\ err' = "FileNotFoundError"
            /\ UNCHANGED <<anime_df, rating_df>>
       ELSE /\ pc' = "clean"
            /\ UNCHANGED err
            /\ anime_df' = ReadAnimeCsv(fs["raw_anime"].rows)
            /\ rating_df' = ReadRatingCsv(fs["raw_rating"].rows)
    /\ UNCHANGED <<script, log, fs, fs0, run, firstCounts, user_id_map, anime_id_map, edaVars>>

\* lines 46-95: all of the cleaning, in memory
PreClean ==
    /\ script = "preprocess" /\ pc = "clean"
    /\ LET cleaned == DropNa(DecodeAndCoerce(anime_df))
           rated   == KeepKnownAnime(RemoveUnrated(rating_df), cleaned)
           umap    == EncodeIds([i \in 1..Len(rated) |-> LET r == rated[i] IN r.user_id])
           amap    == EncodeIds([i \in 1..Len(rated) |-> LET r == rated[i] IN r.anime_id])
       IN  /\ user_id_map' = umap
           /\ anime_id_map' = amap
           /\ rating_df' = AddRatingIdx(rated, umap, amap)
           /\ anime_df' = AddAnimeIdx(cleaned, amap)
    /\ pc' = "save_anime"
    /\ UNCHANGED <<script, err, log, fs, fs0, run, firstCounts, edaVars>>

\* one to_csv call: the file is written, or the file cannot be opened for
\* writing (OSError) and the script dies with the file untouched
PreWrite(at, file, content, next) ==
    /\ script = "preprocess" /\ pc = at
    /\ \E ok \in BOOLEAN :
          IF ok THEN /\ fs' = [fs EXCEPT ![file] = File(content)]
                     /\ log' = Append(log, file)
                     /\ pc' = next
                     /\ UNCHANGED err
          ELSE /\ pc' = "failed"
               /\ err' = "OSError"
               /\ UNCHANGED <<fs, log>>
    /\ UNCHANGED <<script, fs0, preVars, edaVars>>

\* line 104
PreSaveAnime ==
    PreWrite("save_anime", "anime_processed", WriteAnimeCsv(anime_df), "save_rating")
\* line 107
PreSaveRating ==
    PreWrite("save_rating", "rating_processed", WriteRatingCsv(rating_df), "save_user_map")
\* lines 114-116, 120
PreSaveUserMap ==
    PreWrite("save_user_map", "user_id_map", WriteMapCsv(user_id_map), "save_anime_map")
PreSaveAnimeMapToUserMap ==
    PreWrite("save_anime_map", "user_id_map", WriteMapCsv(anime_id_map), "done")
\* lines 117-119, 121
PreSaveAnimeMap ==
    PreWrite("save_anime_map", "anime_id_map", WriteMapCsv(anime_id_map), "done")

\* the operator feeds the processed tables back in as the raw tables and
\* runs the script once more
PreRerun ==
    /\ script = "preprocess" /\ pc = "done" /\ run = 1
    /\ fs' = [fs EXCEPT !["raw_anime"] = fs["anime_processed"],
                        !["raw_rating"] = fs["rating_processed"]]
    /\ fs0' = fs'
    /\ firstCounts' = <<Len(anime_df), Len(rating_df)>>
    /\ run' = 2
    /\ pc' = "load"
    /\ anime_df' = <<>>
    /\ rating_df' = <<>>
    /\ user_id_map' = <<>>
    /\ anime_id_map' = <<>>
    /\ log' = <<>>
    /\ UNCHANGED <<script, err, edaVars>>

NextPre ==
    \/ PreLoad
    \/ PreClean
    \/ PreSaveAnime
    \/ PreSaveRating
    \/ PreSaveUserMap
    \/ PreSaveAnimeMap
    \/ PreRerun

-----------------------------------------------------------------------------
(* eda.py : arithmetic of the aggregates *)

\* Ratings are held in tenths (78 is 7.8).  Members are powers of ten, so
\* that LOG(members) is an integer and the regression is exact in rationals.
Log10(m) ==
    CASE m = 1 -> 0 [] m = 10 -> 1 [] m = 100 -> 2 [] m = 1000 -> 3
      [] m = 10000 -> 4 [] m = 100000 -> 5 [] m = 1000000 -> 6

Abs(x) == IF x < 0 THEN 0 - x ELSE x

Reverse(s) == [i \in 1..Len(s) |-> s[Len(s) + 1 - i]]

RECURSIVE SumSeq(_)
SumSeq(s) == IF s = <<>> THEN 0 ELSE Head(s) + SumSeq(Tail(s))

RECURSIVE Digits(_, _, _, _)
\* long division: k more decimal digits of q + r/den
Digits(q, r, den, k) ==
    IF k = 0 THEN <<q, r>>
    ELSE Digits(q * 10 + ((r * 10) \div den), (r * 10) % den, den, k - 1)

\* ROUND(num/den, 4), den > 0, in units of 0.0001; halves round away from zero
Round4(num, den) ==
    LET a  == Abs(num)
        qr == Digits(a \div den, a % den, den, 4)
        q  == IF 2 * qr[2] >= den THEN qr[1] + 1 ELSE qr[1]
    IN  IF num < 0 THEN 0 - q ELSE q

\* the sums REGR_SLOPE / REGR_INTERCEPT need, over points <<x, y>> with
\* x = rating (tenths) and y = LOG(members)
Fit(points) ==
    LET n   == Len(points)
        sx  == SumSeq([i \in 1..n |-> points[i][1]])
        sy  == SumSeq([i \in 1..n |-> points[i][2]])
        sxx == SumSeq([i \in 1..n |-> points[i][1] * points[i][1]])
        sxy == SumSeq([i \in 1..n |-> points[i][1] * points[i][2]])
    IN  [n |-> n, sx |-> sx, sy |-> sy,
         vx  |-> n * sxx - sx * sx,      \* n^2 * VAR_POP(x)
         cxy |-> n * sxy - sx * sy]      \* n^2 * COVAR_POP(x, y)

\* REGR_SLOPE is NULL over no rows and when the ratings do not vary
FitIsNull(fit) == fit.n = 0 \/ fit.vx = 0

\* ROUND(REGR_SLOPE(LOG(members), rating), 4), per rating point
SlopeOf(fit) ==
    IF FitIsNull(fit) THEN Null ELSE Some(Round4(10 * fit.cxy, fit.vx))

\* ROUND(REGR_INTERCEPT(LOG(members), rating), 4)
InterceptOf(fit) ==
    IF FitIsNull(fit) THEN Null
    ELSE Some(Round4(fit.sy * fit.vx - fit.sx * fit.cxy, fit.n * fit.vx))

\* ROUND(log_m - (intercept + slope * rating), 4) for one row
ResidualOf(fit, x, y) ==
    IF FitIsNull(fit) THEN Null
    ELSE Some(Round4(fit.n * fit.vx * y - fit.sy * fit.vx
                       + fit.sx * fit.cxy - fit.n * fit.cxy * x,
                     fit.n * fit.vx))

-----------------------------------------------------------------------------
(* eda.py : ordering *)

RECURSIVE InsertByKey(_, _)
InsertByKey(s, e) ==
    IF s = <<>> THEN <<e>>
    ELSE IF e.key < Head(s).key THEN <<e>> \o s
         ELSE <<Head(s)>> \o InsertByKey(Tail(s), e)

RECURSIVE StableSort(_)
\* ascending by .key; entries with equal keys keep their order
StableSort(s) ==
    IF s = <<>> THEN <<>>
    ELSE InsertByKey(StableSort(SubSeq(s, 1, Len(s) - 1)), s[Len(s)])

\* an ORDER BY of the engine: SQL leaves the order of tied rows open; the
\* engine yields them in scan order or in the opposite order
EngineOrderBy(s, t) == StableSort(IF t = "asc" THEN s ELSE Reverse(s))

\* sorted(...) of Python: stable
PySorted(s) == StableSort(s)

Take(s, n) == SubSeq(s, 1, IF Len(s) < n THEN Len(s) ELSE n)

\* the row numbers of a table satisfying a WHERE clause, in scan order
RowsWhere(table, Keep(_)) ==
    SelectSeq([i \in 1..Len(table) |-> i], LAMBDA i : Keep(table[i]))

-----------------------------------------------------------------------------
(* eda.py : fetch_data *)

TopGenres == 20
ResidualListLen == 5
TopN == 10
ScatterSample == 2000

\* 4. type_dist: GROUP BY type ORDER BY COUNT(*) DESC
TypeDist(table, t) ==
    LET types  == {table[i].type : i \in 1..Len(table)}
        first(ty) == CHOOSE i \in 1..Len(table) :
                        /\ table[i].type = ty
                        /\ \A j \in 1..(i - 1) : table[j].type # ty
        groups == SelectSeq([i \in 1..Len(table) |->
                               [key |-> 0 - Cardinality({j \in 1..Len(table) :
                                                          table[j].type = table[i].type}),
                                row |-> i]],
                            LAMBDA g : g.row = first(table[g.row].type))
        sorted == EngineOrderBy(groups, t)
    IN  [k \in 1..Len(sorted) |->
           [type |-> table[sorted[k].row].type, count |-> 0 - sorted[k].key]]

\* the rows of the top-rated query: WHERE rating IS NOT NULL AND members >= 1000
TopRatedRows(table) == RowsWhere(table, LAMBDA r : ~IsNull(r.rating) /\ r.members >= 1000)

\* enumerate(..., 1) over the rows a top-10 query returned; a row's name is
\* its row number
Ranked(table, sorted) ==
    [k \in 1..Len(sorted) |->
       [rank |-> k, name |-> sorted[k].row,
        rating |-> table[sorted[k].row].rating, members |-> table[sorted[k].row].members]]

\* 5. top_rated: ORDER BY rating DESC LIMIT 10
TopRatedUnfiltered(table, t) ==
    LET rows == RowsWhere(table, LAMBDA r : ~IsNull(r.rating))
    IN  Ranked(table, Take(EngineOrderBy([k \in 1..Len(rows) |->
                 [key |-> 0 - Val(table[rows[k]].rating), row |-> rows[k]]], t), TopN))
TopRated(table, t) ==
    LET rows == TopRatedRows(table)
    IN  Ranked(table, Take(EngineOrderBy([k \in 1..Len(rows) |->
                 [key |-> 0 - Val(table[rows[k]].rating), row |-> rows[k]]], t), TopN))

\* 6. top_popular: ORDER BY members DESC LIMIT 10
TopPopular(table, t) ==
    Ranked(table, Take(EngineOrderBy([i \in 1..Len(table) |->
                 [key |-> 0 - table[i].members, row |-> i]], t), TopN))

\* TRIM(g.genre_val) on the pieces of the model
Trim(piece) ==
    CASE piece = " Comedy" -> "Comedy"
      [] piece = " Drama"  -> "Drama"
      [] piece = " <td>"   -> "<td>"
      [] piece = " Adventure" -> "Adventure"
      [] piece = " Cars" -> "Cars"
      [] piece = " Dementia" -> "Dementia"
      [] piece = " Demons" -> "Demons"
      [] piece = " Ecchi" -> "Ecchi"
      [] piece = " Fantasy" -> "Fantasy"
      [] piece = " Game" -> "Game"
      [] piece = " Harem" -> "Harem"
      [] piece = " Historical" -> "Historical"
      [] piece = " Horror" -> "Horror"
      [] piece = " Josei" -> "Josei"
      [] piece = " Kids" -> "Kids"
      [] piece = " Magic" -> "Magic"
      [] piece = " Mecha" -> "Mecha"
      [] piece = " Military" -> "Military"
      [] piece = " Music" -> "Music"
      [] piece = " Mystery" -> "Mystery"
      [] piece = " Parody" -> "Parody"
      [] piece = " Police" -> "Police"
      [] piece = " Romance" -> "Romance"
      [] OTHER             -> piece

RECURSIVE Concat(_)
Concat(ss) == IF ss = <<>> THEN <<>> ELSE Head(ss) \o Concat(Tail(ss))

\* the exploded CTE: one entry per (row, piece of its genre), genre not NULL
Exploded(table) ==
    Concat([i \in 1..Len(table) |->
              IF IsNull(table[i].genre) THEN <<>>
              ELSE [k \in 1..Len(Val(table[i].genre)) |-> Trim(Val(table[i].genre)[k])]])

GenreStatsUnlimited(table, t) ==
    LET ex     == Exploded(table)
        groups == SelectSeq([i \in 1..Len(ex) |->
                               [key |-> 0 - Cardinality({j \in 1..Len(ex) : ex[j] = ex[i]}),
                                pos |-> i]],
                            LAMBDA g : \A j \in 1..(g.pos - 1) : ex[j] # ex[g.pos])
        sorted == EngineOrderBy(groups, t)
    IN  [k \in 1..Len(sorted) |->
           [genre |-> ex[sorted[k].pos], count |-> 0 - sorted[k].key]]
\* 7. genre_stats: GROUP BY genre ORDER BY COUNT(*) DESC LIMIT 20
GenreStats(table, t) ==
    LET ex     == Exploded(table)
        groups == SelectSeq([i \in 1..Len(ex) |->
                               [key |-> 0 - Cardinality({j \in 1..Len(ex) : ex[j] = ex[i]}),
                                pos |-> i]],
                            LAMBDA g : \A j \in 1..(g.pos - 1) : ex[j] # ex[g.pos])
        sorted == Take(EngineOrderBy(groups, t), TopGenres)
    IN  [k \in 1..Len(sorted) |->
           [genre |-> ex[sorted[k].pos], count |-> 0 - sorted[k].key]]

\* FLOOR(rating), rating in tenths
FloorRatingRounded(r) == (r + 5) \div 10
FloorRating(r) == r \div 10

\* 8. rating_hist: GROUP BY FLOOR(rating) ORDER BY bucket
RatingHist(table) ==
    LET rated   == RowsWhere(table, LAMBDA r : ~IsNull(r.rating))
        bucket(i) == FloorRating(Val(table[i].rating))
        groups  == SelectSeq([k \in 1..Len(rated) |-> [key |-> bucket(rated[k]), pos |-> k]],
                             LAMBDA g : \A j \in 1..(g.pos - 1) :
                                          bucket(rated[j]) # g.key)
        sorted  == StableSort(groups)
    IN  [k \in 1..Len(sorted) |->
           [bucket |-> sorted[k].key,
            count  |-> Cardinality({j \in 1..Len(rated) : bucket(rated[j]) = sorted[k].key})]]

PointsOf(table, rows) ==
    [k \in 1..Len(rows) |->
       <<Val(table[rows[k]].rating), Log10(table[rows[k]].members)>>]

\* the rows of the reported regression: WHERE rating IS NOT NULL AND members > 0
RegRows(table) == RowsWhere(table, LAMBDA r : ~IsNull(r.rating) /\ r.members > 0)

\* USING SAMPLE n ROWS: every row when there are at most n, else n rows of the
\* engine's choosing
SampleOf(rows, n, t) ==
    IF Len(rows) <= n THEN rows
    ELSE IF t = "asc" THEN SubSeq(rows, 1, n)
         ELSE SubSeq(rows, Len(rows) - n + 1, Len(rows))

\* scatter_data: the sampled rows of the regression, ORDER BY rating
ScatterData(table, t) ==
    LET rows   == SampleOf(RegRows(table), ScatterSample, t)
        sorted == EngineOrderBy([k \in 1..Len(rows) |->
                     [key |-> Val(table[rows[k]].rating), row |-> rows[k]]], t)
    IN  [k \in 1..Len(sorted) |->
           [x |-> table[sorted[k].row].rating, y |-> table[sorted[k].row].members,
            label |-> sorted[k].row]]

\* the rows of the residual query: WHERE rating IS NOT NULL AND members >= 1000
PoolRows(table) == RowsWhere(table, LAMBDA r : ~IsNull(r.rating) /\ r.members >= 1000)

\* the rows over which the window functions REGR_... OVER () of the residual
\* query are computed: the rows the query's WHERE clause kept
WindowRows(table) == PoolRows(table)

\* the residual query, ORDER BY abs_res; each entry is the dict _row builds
Outliers(table, t) ==
    LET pool == PoolRows(table)
        fit  == Fit(PointsOf(table, WindowRows(table)))
        rows == [k \in 1..Len(pool) |->
                   LET r   == table[pool[k]]
                       res == ResidualOf(fit, Val(r.rating), Log10(r.members))
                   IN  [name |-> pool[k], residual |-> res,
                        key |-> IF IsNull(res) THEN 0 ELSE Abs(Val(res))]]
    IN  EngineOrderBy(rows, t)

WithKey(s, sign) ==
    [k \in 1..Len(s) |-> [s[k] EXCEPT !.key = sign * Val(s[k].residual)]]

\* [_row(r) for r in ...]
RowDicts(s) == [k \in 1..Len(s) |-> [name |-> s[k].name, residual |-> s[k].residual]]

ConformAll(outliers) == RowDicts(outliers)
\* lines 214-218
ConformOf(outliers) == RowDicts(Take(outliers, ResidualListLen))
UnderperformOf(outliers) ==
    RowDicts(Take(PySorted(WithKey(outliers, 1)), ResidualListLen))
OverperformSameSign(outliers) == UnderperformOf(outliers)
OverperformOf(outliers) ==
    RowDicts(Take(PySorted(WithKey(outliers, 0 - 1)), ResidualListLen))

\* fetch_data raises: int(None) on the member statistics of a table with no
\* members value (line 251), or None residuals meeting sorted() / unary minus
\* (lines 216-218)
FetchFails(table) ==
    \/ table = <<>>
    \/ /\ PoolRows(table) # <<>>
       /\ FitIsNull(Fit(PointsOf(table, WindowRows(table))))

\* the dict fetch_data returns (the aggregates the renderers count or chart)
FetchData(table, t) ==
    LET outliers == Outliers(table, t)
        reg      == Fit(PointsOf(table, RegRows(table)))
    IN  [total_rows        |-> Len(table),
         type_dist         |-> TypeDist(table, t),
         top_rated         |-> TopRated(table, t),
         top_popular       |-> TopPopular(table, t),
         genre_stats       |-> GenreStats(table, t),
         rating_hist       |-> RatingHist(table),
         scatter_data      |-> ScatterData(table, t),
         reg_slope         |-> SlopeOf(reg),
         reg_intercept     |-> InterceptOf(reg),
         corr_conform      |-> ConformOf(outliers),
         corr_underperform |-> UnderperformOf(outliers),
         corr_overperform  |-> OverperformOf(outliers)]

-----------------------------------------------------------------------------
(* eda.py : render_html *)

\* Python truthiness of a type value: None and '' are falsy
Truthy(v) == ~IsNull(v) /\ Val(v) # ""

\* [t for t in data["type_dist"] if t["type"]]
ChartTypes(type_dist) == SelectSeq(type_dist, LAMBDA g : Truthy(g.type))

\* render_html raises before writing: max() of an empty histogram (line 445),
\* or the '+' format of a None slope (line 599)
RenderHtmlFails(d) == d.rating_hist = <<>> \/ IsNull(d.reg_slope)

RenderHtmlError(d) == IF d.rating_hist = <<>> THEN "ValueError" ELSE "TypeError"

\* the sections render_console prints, and the one that holds the histogram
ConsoleSections == 10
HistSection == 8

\* render_console raises on max() of an empty histogram (line 345)
RenderConsoleFails(d) == d.rating_hist = <<>>

\* the tags of the document are written [open, tag]
Open(tag) == [open |-> TRUE, tag |-> tag]
Close(tag) == [open |-> FALSE, tag |-> tag]

\* the tags a cell's text puts into the document: f"<td>{cell}</td>" writes
\* the text as it is
TagsIn(text) == IF text = "<td>" THEN <<Open("td")>> ELSE <<>>
\* a cell that holds a number, None or a name of the model: no markup
NoTags == <<>>

\* _html_table (lines 369-379) on nh headers and rows of cells, each cell
\* given by the tags of its text
HtmlTable(nh, rows) ==
    <<Open("table"), Open("thead"), Open("tr")>>
      \o Concat([h \in 1..nh |-> <<Open("th"), Close("th")>>])
      \o <<Close("tr"), Close("thead"), Open("tbody")>>
      \o Concat([k \in 1..Len(rows) |->
             <<Open("tr")>>
               \o Concat([c \in 1..Len(rows[k]) |->
                      <<Open("td")>> \o rows[k][c] \o <<Close("td")>>])
               \o <<Close("tr")>>])
      \o <<Close("tbody"), Close("table")>>

Section(content) == <<Open("section")>> \o content \o <<Close("section")>>

\* the rows of a top-10 table and of a pickup table: the name and type cells
\* of the model carry no markup
PlainRows(n, cells) == [k \in 1..n |-> [c \in 1..cells |-> NoTags]]

\* the table, thead, tbody, tr, th, td and section tags of the document
\* (lines 546-632), in order; the tables of sections 1, 2, 3 and 7 are
\* written without their rows
HtmlTags(d) ==
    Section(HtmlTable(2, <<>>))
      \o Section(HtmlTable(2, <<>>))
      \o Section(HtmlTable(4, <<>>))
      \o Section(HtmlTable(4, [k \in 1..Len(d.type_dist) |->
              <<IF IsNull(d.type_dist[k].type) THEN NoTags
                ELSE TagsIn(Val(d.type_dist[k].type)), NoTags, NoTags, NoTags>>]))
      \o Section(HtmlTable(5, PlainRows(Len(d.top_rated), 5)))
      \o Section(HtmlTable(5, PlainRows(Len(d.top_popular), 5)))
      \o Section(HtmlTable(5, <<>>))
      \o Section(HtmlTable(4, [k \in 1..Len(d.genre_stats) |->
              <<TagsIn(d.genre_stats[k].genre), NoTags, NoTags, NoTags>>]))
      \o Section(HtmlTable(7, PlainRows(Len(d.corr_underperform), 7))
                 \o HtmlTable(7, PlainRows(Len(d.corr_overperform), 7)))

\* the document render_html assembles: the rows of its text tables, the
\* arrays of its embedded JSON payload, and its tags
HtmlOf(d) ==
    [type_table  |-> [k \in 1..Len(d.type_dist) |-> <<d.type_dist[k].type, d.type_dist[k].count>>],
     genre_table |-> [k \in 1..Len(d.genre_stats) |-> <<d.genre_stats[k].genre, d.genre_stats[k].count>>],
     hist_table  |-> [k \in 1..Len(d.rating_hist) |-> <<d.rating_hist[k].bucket, d.rating_hist[k].count>>],
     under_table |-> d.corr_underperform,
     over_table  |-> d.corr_overperform,
     json |-> [labels       |-> [k \in 1..Len(d.rating_hist) |-> d.rating_hist[k].bucket],
               counts       |-> [k \in 1..Len(d.rating_hist) |-> d.rating_hist[k].count],
               genres       |-> [k \in 1..Len(d.genre_stats) |-> d.genre_stats[k].genre],
               genre_counts |-> [k \in 1..Len(d.genre_stats) |-> d.genre_stats[k].count],
               types        |-> [k \in 1..Len(ChartTypes(d.type_dist)) |-> ChartTypes(d.type_dist)[k].type],
               type_counts  |-> [k \in 1..Len(ChartTypes(d.type_dist)) |-> ChartTypes(d.type_dist)[k].count],
               reg_slope     |-> d.reg_slope,
               reg_intercept |-> d.reg_intercept],
     tags |-> HtmlTags(d)]

-----------------------------------------------------------------------------
(* eda.py : inputs *)

RECURSIVE Repeat(_, _)
Repeat(x, n) == IF n = 0 THEN <<>> ELSE <<x>> \o Repeat(x, n - 1)

RECURSIVE TableOf(_, _, _, _)
\* the table holding copies[i] rows of kinds[i], for i = from .. Len(kinds)
TableOf(kinds, copies, from, upto) ==
    IF from > upto THEN <<>>
    ELSE Repeat(kinds[from], copies[from]) \o TableOf(kinds, copies, from + 1, upto)

\* the tables with 0 .. n rows of each kind.  A relation has no row order of
\* its own: the rows are kept grouped by kind, and the order the engine
\* gives tied or unordered rows is the variable tie
Tables(kinds, n) ==
    {TableOf(kinds, c, 1, Len(kinds)) : c \in [1..Len(kinds) -> 0..n]}

\* a genre cell of 21 tags: more tags than genre_stats lists
ManyGenres ==
    <<"Action", " Adventure", " Cars", " Dementia", " Demons", " Ecchi",
      " Fantasy", " Game", " Harem", " Historical", " Horror", " Josei",
      " Kids", " Magic", " Mecha", " Military", " Music", " Mystery",
      " Parody", " Police", " Romance">>

\* the kinds of row of the anime view
EdaKinds ==
    << [rating |-> Some(78), members |-> 100000, type |-> Some("TV"),
        genre |-> Some(<<"Action", " Comedy">>)],
       [rating |-> Some(65), members |-> 1000, type |-> Some("Movie"),
        genre |-> Some(<<"Comedy">>)],
       [rating |-> Some(82), members |-> 100, type |-> Some("TV"),
        genre |-> Some(<<"Drama", " <td>">>)],
       [rating |-> Some(71), members |-> 10000, type |-> Null,
        genre |-> Some(<<"Action", " Drama">>)],
       [rating |-> Null, members |-> 10, type |-> Some("Movie"),
        genre |-> Null],
       [rating |-> Some(65), members |-> 10000, type |-> Some(""),
        genre |-> Some(ManyGenres)] >>

ReportModes == {"console", "html", "both"}
TieOrders == {"asc", "desc"}

PreIdle ==
    /\ run = 1
    /\ firstCounts = <<0, 0>>
    /\ anime_df = <<>>
    /\ rating_df = <<>>
    /\ user_id_map = <<>>
    /\ anime_id_map = <<>>

\* the output directory before the run: empty, or holding earlier reports
EmptyDisk == [f \in Files |-> NoFile]
EarlierReport ==
    [type_table  |-> << <<Some("OVA"), 1>> >>,
     genre_table |-> << <<"Music", 1>> >>,
     hist_table  |-> << <<9, 1>> >>,
     under_table |-> <<>>,
     over_table  |-> <<>>,
     json |-> [labels |-> <<9>>, counts |-> <<1>>,
               genres |-> <<"Music">>, genre_counts |-> <<1>>,
               types |-> <<Some("OVA")>>, type_counts |-> <<1>>,
               reg_slope |-> Some(0), reg_intercept |-> Some(30000)],
     tags |-> Section(HtmlTable(4, << <<NoTags, NoTags, NoTags, NoTags>> >>))]
UsedDisk == [f \in Files |-> IF f \in EdaOutputs THEN File(EarlierReport) ELSE NoFile]

ParseReportDefaultBoth(flag) == IF IsNull(flag) THEN "both" ELSE Val(flag)
\* argparse: --report with choices console, html, both and default console
ParseReport(flag) == IF IsNull(flag) THEN "console" ELSE Val(flag)
ReportArgs == {Null} \cup {Some(m) : m \in ReportModes}

\* the file --data names holds the rows of the view
EdaStart(tables, flags, disks) ==
    /\ script = "eda"
    /\ pc = "build_view"
    /\ err = "none"
    /\ log = <<>>
    /\ anime \in tables
    /\ argv \in flags
    /\ report = ParseReport(argv)
    /\ tie \in TieOrders
    /\ con = "none"
    /\ data = <<>>
    /\ console = <<>>
    /\ past = <<>>
    /\ older = <<>>
    /\ \E d \in disks : fs = [d EXCEPT !["anime_processed"] = File(anime)]
    /\ fs0 = fs
    /\ PreIdle

\* the kinds of row of the tables used for the residual lists
ResidKinds ==
    LET k(r, m) == [rating |-> Some(r), members |-> m, type |-> Some("TV"),
                    genre |-> Some(<<"Action">>)]
    IN  << k(60, 1000), k(62, 10000), k(65, 1000), k(68, 100000), k(70, 10000),
           k(72, 1000), k(75, 100000), k(78, 10000), k(80, 100000), k(83, 1000),
           k(85, 10000), k(55, 100) >>

\* the tables with the same number, 1 .. n, of rows of each kind of a subset
UniformTables(kinds, n) ==
    {TableOf(kinds, [i \in 1..Len(kinds) |-> IF i \in S THEN m ELSE 0], 1, Len(kinds)) :
        S \in SUBSET (1..Len(kinds)), m \in 1..n}

InitResid == EdaStart(UniformTables(ResidKinds, ResidCopies), {Some("both")}, {EmptyDisk})

InitRuns == EdaStart(Tables(SubSeq(EdaKinds, 1, 3), MaxCopies), ReportArgs, {EmptyDisk, UsedDisk})

InitEda == EdaStart(Tables(EdaKinds, MaxCopies), ReportArgs, {EmptyDisk, UsedDisk})

-----------------------------------------------------------------------------
(* eda.py : main() step by step *)

\* lines 752-753: connect, CREATE VIEW anime
EdaBuildView ==
    /\ script = "eda" /\ pc = "build_view"
    /\ con' = "open"
    /\ pc' = "fetch"
    /\ log' = Append(log, "build_view")
    /\ UNCHANGED <<script, err, fs, fs0, preVars, anime, report, tie, data, console,
                   argv, past, older>>

\* lines 755-757: fetch_data, then con.close()
EdaFetch ==
    /\ script = "eda" /\ pc = "fetch"
    /\ IF FetchFails(anime)
       THEN /\ pc' = "failed"
            /\ err' = "TypeError"
            /\ log' = Append(log, "fetch_data")
            /\ UNCHANGED <<data, con>>
       ELSE /\ data' = FetchData(anime, tie)
            /\ con' = "closed"
            /\ pc' = "render_console"
            /\ log' = log \o <<"fetch_data", "con.close">>
            /\ UNCHANGED err
    /\ UNCHANGED <<script, fs, fs0, preVars, anime, report, tie, console, argv, past, older>>

\* lines 759-760: render_console prints its sections in order and raises in
\* the histogram section when the histogram is empty
EdaRenderConsole ==
    /\ script = "eda" /\ pc = "render_console"
    /\ IF report \in {"console", "both"}
       THEN /\ log' = Append(log, "render_console")
            /\ IF RenderConsoleFails(data)
               THEN /\ pc' = "failed"
                    /\ err' = "ValueError"
                    /\ console' = [k \in 1..(HistSection - 1) |-> k]
               ELSE /\ pc' = "render_html"
                    /\ console' = [k \in 1..ConsoleSections |-> k]
                    /\ UNCHANGED err
       ELSE pc' = "render_html" /\ UNCHANGED <<console, err, log>>
    /\ UNCHANGED <<script, fs, fs0, preVars, anime, report, tie, con, data, argv, past, older>>

\* the document of a report whose file was opened before its content was built
PartialHtml ==
    [type_table |-> <<>>, genre_table |-> <<>>, hist_table |-> <<>>,
     under_table |-> <<>>, over_table |-> <<>>,
     json |-> [labels |-> <<>>, counts |-> <<>>, genres |-> <<>>, genre_counts |-> <<>>,
               types |-> <<>>, type_counts |-> <<>>,
               reg_slope |-> Null, reg_intercept |-> Null],
     tags |-> <<>>]

EdaRenderHtmlWritesFirst ==
    /\ script = "eda" /\ pc = "render_html"
    /\ IF report \in {"html", "both"}
       THEN IF RenderHtmlFails(data)
            THEN /\ pc' = "failed"
                 /\ err' = RenderHtmlError(data)
                 /\ fs' = [fs EXCEPT !["report_ts"] = File(PartialHtml)]
                 /\ log' = log \o <<"render_html", "report_ts">>
            ELSE \E ok \in BOOLEAN :
                   IF ok THEN /\ fs' = [fs EXCEPT !["report_ts"] = File(HtmlOf(data))]
                              /\ pc' = "write_latest"
                              /\ log' = log \o <<"render_html", "report_ts">>
                              /\ UNCHANGED err
                   ELSE /\ pc' = "failed"
                        /\ err' = "OSError"
                        /\ log' = Append(log, "render_html")
                        /\ UNCHANGED fs
       ELSE pc' = "done" /\ UNCHANGED <<fs, err, log>>
    /\ UNCHANGED <<script, fs0, preVars, edaVars>>

\* lines 762-767: render_html builds the document and, last of all, writes
\* it (line 729); the write may raise
EdaRenderHtml ==
    /\ script = "eda" /\ pc = "render_html"
    /\ IF report \in {"html", "both"}
       THEN IF RenderHtmlFails(data)
            THEN /\ pc' = "failed"
                 /\ err' = RenderHtmlError(data)
                 /\ log' = Append(log, "render_html")
                 /\ UNCHANGED fs
            ELSE \E ok \in BOOLEAN :
                   IF ok THEN /\ fs' = [fs EXCEPT !["report_ts"] = File(HtmlOf(data))]
                              /\ pc' = "write_latest"
                              /\ log' = log \o <<"render_html", "report_ts">>
                              /\ UNCHANGED err
                   ELSE /\ pc' = "failed"
                        /\ err' = "OSError"
                        /\ log' = Append(log, "render_html")
                        /\ UNCHANGED fs
       ELSE pc' = "done" /\ UNCHANGED <<fs, err, log>>
    /\ UNCHANGED <<script, fs0, preVars, edaVars>>

\* line 768: latest_file.write_text(out_file.read_text())
EdaWriteLatest ==
    /\ script = "eda" /\ pc = "write_latest"
    /\ \E ok \in BOOLEAN :
         IF ok THEN /\ fs' = [fs EXCEPT !["report_latest"] = fs["report_ts"]]
                    /\ pc' = "done"
                    /\ log' = Append(log, "report_latest")
                    /\ UNCHANGED err
         ELSE pc' = "failed" /\ err' = "OSError" /\ UNCHANGED <<fs, log>>
    /\ UNCHANGED <<script, fs0, preVars, edaVars>>

\* what a run that has ended leaves to remember: its table and bundle, and
\* the timestamped report it wrote, if it wrote one
RunRecord ==
    [anime   |-> anime,
     fetched |-> con = "closed",
     data    |-> data,
     ok      |-> pc = "done",
     report  |-> report,
     stamped |-> "report_ts" \in Range(log),
     doc     |-> IF "report_ts" \in Range(log) THEN HtmlOf(data) ELSE PartialHtml,
     stamp   |-> Len(older) + 1]

\* main() is started again on the same output directory.  Line 764 names the
\* report by the second it is written in: the new run's name is the name of
\* the run before when both fall into the same second, and a new name
\* otherwise.  The file --data names is the same, or has lost its first row.
EdaRerun ==
    /\ script = "eda" /\ pc \in {"done", "failed"}
    /\ Len(past) + 1 < MaxRuns
    /\ past' = Append(past, RunRecord)
    /\ \E table \in {anime} \cup (IF anime = <<>> THEN {} ELSE {Tail(anime)}) :
       \E sameSecond \in BOOLEAN :
          /\ anime' = table
          /\ older' = IF sameSecond THEN older ELSE Append(older, fs["report_ts"])
          /\ fs' = [fs EXCEPT !["anime_processed"] = File(table),
                              !["report_ts"] = IF sameSecond THEN @ ELSE NoFile]
    /\ fs0' = fs'
    /\ \E flag \in ReportArgs : argv' = flag /\ report' = ParseReport(flag)
    /\ tie' \in TieOrders
    /\ pc' = "build_view"
    /\ err' = "none"
    /\ log' = <<>>
    /\ con' = "none"
    /\ data' = <<>>
    /\ console' = <<>>
    /\ UNCHANGED <<script, preVars>>

NextEda ==
    \/ EdaBuildView
    \/ EdaFetch
    \/ EdaRenderConsole
    \/ EdaRenderHtml
    \/ EdaWriteLatest

-----------------------------------------------------------------------------
(* Specifications *)

\* one use of either script
Init == InitPre \/ InitEda
Next == NextPre \/ NextEda
Spec == Init /\ [][Next]_vars

\* the reporter, up to the return of fetch_data, on tables with up to
\* 12 * ResidCopies rows
NextFetch == EdaBuildView \/ EdaFetch
SpecResid == InitResid /\ [][NextFetch]_vars

\* up to MaxRuns runs of the reporter into one output directory
NextRuns == NextEda \/ EdaRerun
SpecRuns == InitRuns /\ [][NextRuns]_vars

-----------------------------------------------------------------------------
(* Properties of the preprocessor *)

\* the cleaning has run and the script has not died
Cleaned ==
    /\ script = "preprocess"
    /\ pc \in {"save_anime", "save_rating", "save_user_map", "save_anime_map", "done"}

PreDone == script = "preprocess" /\ pc = "done"

AnimeOut == fs["anime_processed"].rows
RatingOut == fs["rating_processed"].rows
AnimeMapOut == fs["anime_id_map"].rows
RawAnimeIn == fs["raw_anime"].rows
RawRatingIn == fs["raw_rating"].rows

\* C1: when the preprocessor has finished, every row of rating_processed.csv
\* has a rating other than -1, the anime_id of a row of anime_processed.csv,
\* and an anime_idx that anime_id_map.csv gives for that anime_id and that
\* lies in 0 .. (rows of anime_processed.csv) - 1.
C1_RatingsReferToSurvivingAnime ==
    PreDone =>
      \A i \in 1..Len(RatingOut) :
        LET r == RatingOut[i] IN
          /\ r.rating # -1
          /\ \E j \in 1..Len(AnimeOut) : AnimeOut[j].anime_id = r.anime_id
          /\ \E m \in 1..Len(AnimeMapOut) :
                AnimeMapOut[m].id = r.anime_id /\ AnimeMapOut[m].idx = r.anime_idx
          /\ 0 <= r.anime_idx /\ r.anime_idx < Len(AnimeOut)

\* a first run that kept a rating row and dropped another one
C1_Witness ==
    /\ PreDone /\ run = 1
    /\ Len(RatingOut) >= 1
    /\ Len(RatingOut) < Len(RawRatingIn)

\* the ids of a column of the surviving rating records
SurvivingUserIds == {rating_df[i].user_id : i \in 1..Len(rating_df)}
SurvivingAnimeIds == {rating_df[i].anime_id : i \in 1..Len(rating_df)}

\* idmap is an order-preserving bijection from S onto 0 .. |S|-1
IsDenseIndex(idmap, S) ==
    /\ DOMAIN idmap = S
    /\ {idmap[a] : a \in S} = 0..(Cardinality(S) - 1)
    /\ \A a, b \in S : a < b => idmap[a] < idmap[b]

\* C2: after cleaning, user_id_map and anime_id_map are order-preserving
\* bijections from the set of ids occurring in the surviving rating records
\* onto 0..n-1; being determined by that set, they do not depend on the
\* order of the input rows.
C2_IdMapsAreDenseAndOrdered ==
    Cleaned =>
      /\ IsDenseIndex(user_id_map, SurvivingUserIds)
      /\ IsDenseIndex(anime_id_map, SurvivingAnimeIds)

\* two users survive and the larger id comes first in the input
C2_Witness ==
    /\ Cleaned /\ run = 1
    /\ Len(rating_df) >= 2
    /\ rating_df[1].user_id > rating_df[2].user_id

\* C3: after cleaning, no row of the anime table has a null rating or a null
\* genre; a raw row with a non-numeric episodes cell that has a rating, a
\* genre and a rated (not -1) rating record is kept, with null episodes, and
\* is written with an empty episodes cell.
C3_RatingGenrePresentEpisodesNullable ==
    /\ Cleaned =>
         /\ \A j \in 1..Len(anime_df) :
               ~IsNull(anime_df[j].rating) /\ ~IsNull(anime_df[j].genre)
         /\ \A i \in 1..Len(RawAnimeIn) :
               LET raw == RawAnimeIn[i] IN
                 ( /\ raw.episodes \notin NumericTexts
                   /\ ~IsNull(raw.rating)
                   /\ ~IsNull(ReadCsvText(raw.genre))
                   /\ \E k \in 1..Len(RawRatingIn) :
                         /\ RawRatingIn[k].anime_id = raw.anime_id
                         /\ RawRatingIn[k].rating # -1 )
                 => \E j \in 1..Len(anime_df) :
                       anime_df[j].index = i /\ IsNull(anime_df[j].episodes)
    /\ PreDone =>
         /\ Len(AnimeOut) = Len(anime_df)
         /\ \A j \in 1..Len(AnimeOut) :
               /\ AnimeOut[j].rating # Null
               /\ AnimeOut[j].genre # ""
               /\ IsNull(anime_df[j].episodes) => AnimeOut[j].episodes = ""

\* a row whose episodes cell was 'Unknown' has been written
C3_Witness ==
    /\ PreDone /\ run = 1
    /\ \E j \in 1..Len(anime_df) :
          /\ RawAnimeIn[anime_df[j].index].episodes = "Unknown"
          /\ AnimeOut[j].episodes = ""

\* C4: a second run, on the tables the first run produced, ends with the
\* row counts of the first run.
C4_RerunKeepsRowCounts ==
    (PreDone /\ run = 2) =>
      /\ Len(anime_df) = firstCounts[1]
      /\ Len(rating_df) = firstCounts[2]

-----------------------------------------------------------------------------
(* Properties of the reporter *)

\* fetch_data has returned its bundle
Fetched ==
    /\ script = "eda"
    /\ pc \in {"render_console", "render_html", "write_latest", "done"}

\* render_html has written the timestamped report of this run
HtmlWritten == script = "eda" /\ pc \in {"write_latest", "done"} /\ report # "console"

Names(list) == {list[k].name : k \in 1..Len(list)}

\* the candidate pool: rows with non-null rating and members >= 1000
Pool == {i \in 1..Len(anime) : ~IsNull(anime[i].rating) /\ anime[i].members >= 1000}

Min(a, b) == IF a < b THEN a ELSE b

ListsDisjoint ==
    /\ Names(data.corr_conform) \cap Names(data.corr_underperform) = {}
    /\ Names(data.corr_conform) \cap Names(data.corr_overperform) = {}
    /\ Names(data.corr_underperform) \cap Names(data.corr_overperform) = {}

\* C5 (as claimed): with 15 or more rows in the pool, conform, underperform
\* and overperform are pairwise disjoint.
C5_DisjointFrom15 ==
    (Fetched /\ Cardinality(Pool) >= 15) => ListsDisjoint

ResidualsDistinct ==
    LET all == Outliers(anime, tie)
    IN  \A a, b \in 1..Len(all) : a # b => all[a].residual # all[b].residual

\* C5 (amended): with 10 or more rows in the pool and pairwise distinct
\* residuals, underperform and overperform share no member.
C5_TailsDisjointWhenDistinct ==
    (Fetched /\ Cardinality(Pool) >= 10 /\ ResidualsDistinct)
      => Names(data.corr_underperform) \cap Names(data.corr_overperform) = {}

\* a pool of 10 or more rows, all of different residuals
C5_Witness ==
    Fetched /\ Cardinality(Pool) >= 10 /\ ResidualsDistinct

C7_PayloadMatchesTables ==
    HtmlWritten =>
      LET doc == fs["report_ts"].rows
      IN  /\ Len(doc.json.labels) = Len(doc.hist_table)
          /\ Len(doc.json.counts) = Len(doc.hist_table)
          /\ Len(doc.json.genres) = Len(doc.genre_table)
          /\ Len(doc.json.genre_counts) = Len(doc.genre_table)
          /\ Len(doc.json.types) = Len(doc.type_table)
          /\ Len(doc.json.type_counts) = Len(doc.type_table)

Rated == {i \in 1..Len(anime) : ~IsNull(anime[i].rating)}

\* C8: the histogram counts sum to the number of rows with a rating; a rated
\* row lies in exactly one bucket b, with b <= rating < b + 1, which counts
\* the rows of that range; no bucket is empty.
C8_HistogramPartitionsRatedRows ==
    Fetched =>
      LET h == data.rating_hist IN
        /\ SumSeq([k \in 1..Len(h) |-> h[k].count]) = Cardinality(Rated)
        /\ \A k \in 1..Len(h) :
              /\ h[k].count > 0
              /\ h[k].count = Cardinality({i \in Rated :
                                 /\ 10 * h[k].bucket <= Val(anime[i].rating)
                                 /\ Val(anime[i].rating) < 10 * (h[k].bucket + 1)})
        /\ \A i \in Rated :
              Cardinality({k \in 1..Len(h) :
                             /\ 10 * h[k].bucket <= Val(anime[i].rating)
                             /\ Val(anime[i].rating) < 10 * (h[k].bucket + 1)}) = 1

\* several buckets, one of them with several rows, beside an unrated row
C8_Witness ==
    /\ Fetched
    /\ Len(data.rating_hist) >= 2
    /\ \E k \in 1..Len(data.rating_hist) : data.rating_hist[k].count >= 2
    /\ Cardinality(Rated) < Len(anime)

\* the residual of row i against the line of the reported regression
ResidualAgainstReported(i) ==
    ResidualOf(Fit(PointsOf(anime, RegRows(anime))),
               Val(anime[i].rating), Log10(anime[i].members))

\* C9: every residual of the residual lists is the row's log10(members)
\* minus the prediction of the line fitted on the rows of the reported
\* regression (rating not null, members > 0).
C9_ResidualsUseReportedFit ==
    Fetched =>
      \A list \in {data.corr_conform, data.corr_underperform, data.corr_overperform} :
        \A k \in 1..Len(list) :
          list[k].residual = ResidualAgainstReported(list[k].name)

-----------------------------------------------------------------------------
(* Properties of both scripts *)

Outputs == PreOutputs \cup EdaOutputs
OutputsUntouched == \A f \in Outputs : fs[f] = fs0[f]

BeforeWrites ==
    {"load", "clean", "save_anime", "build_view", "fetch", "render_console", "render_html"}

-----------------------------------------------------------------------------
(* Properties of runs of the reporter *)

\* the run before this one fetched its bundle from the table of this run
SameTableFetchedBefore ==
    /\ Fetched
    /\ past # <<>>
    /\ past[Len(past)].fetched
    /\ past[Len(past)].anime = anime

\* C11: two runs of fetch_data on the same table return equal values for
\* every aggregate field of the bundle.
C11_SameTableSameBundle ==
    SameTableFetchedBefore =>
      \A field \in DOMAIN data : data[field] = past[Len(past)].data[field]

\* the calls of the log, without the files written
Calls == SelectSeq(log, LAMBDA e : e \notin Files)

IsPrefix(a, b) == Len(a) <= Len(b) /\ a = SubSeq(b, 1, Len(a))

\* the mode the command line asks for
ModeAsked == IF argv = Null THEN "console" ELSE argv[1]

\* the calls of a complete run in a mode
CallsOfMode(mode) ==
    <<"build_view", "fetch_data", "con.close">>
      \o (IF mode \in {"console", "both"} THEN <<"render_console">> ELSE <<>>)
      \o (IF mode \in {"html", "both"} THEN <<"render_html">> ELSE <<>>)

\* C12: the renderers that run are those --report selects (console when the
\* flag is absent), console before html; console mode writes no file; and
\* fetch_data has run once and the connection is closed before a renderer
\* starts.
C12_ReportFlagSelectsRenderers ==
    script = "eda" =>
      /\ IsPrefix(Calls, CallsOfMode(ModeAsked))
      /\ pc = "done" => Calls = CallsOfMode(ModeAsked)
      /\ ModeAsked = "console" => (log = Calls /\ \A f \in Files : fs[f] = fs0[f])
      /\ pc \in {"render_console", "render_html", "write_latest", "done"} =>
            /\ con = "closed"
            /\ data # <<>>
            /\ Cardinality({k \in 1..Len(log) : log[k] = "fetch_data"}) = 1
      /\ (\E k \in 1..Len(log) : log[k] \in {"render_console", "render_html"}) =>
            con = "closed"

\* a complete run without the flag
C12_Witness ==
    /\ script = "eda" /\ pc = "done"
    /\ argv = Null
    /\ console # <<>>

\* the runs so far, the running one last
RunsSoFar == Append(past, RunRecord)

\* the timestamped report of the second numbered p
StampedFile(p) == IF p = Len(older) + 1 THEN fs["report_ts"] ELSE older[p]

\* the runs in html or both mode that succeeded
HtmlRuns == {k \in 1..Len(RunsSoFar) : RunsSoFar[k].ok /\ RunsSoFar[k].report # "console"}

\* a position of the log
Position(e) == CHOOSE k \in 1..Len(log) : log[k] = e

\* C13: after any sequence of runs, the latest copy holds the report the most
\* recent successful html run wrote under its timestamp; in a run the
\* timestamped file is written before the latest copy; and the timestamped
\* file of every earlier run still exists with the content that run wrote.
C13_LatestAndArchive ==
    (script = "eda" /\ pc \in {"done", "failed"}) =>
      /\ HtmlRuns # {} =>
           LET last == RunsSoFar[CHOOSE k \in HtmlRuns : \A j \in HtmlRuns : j <= k]
           IN  fs["report_latest"] = File(last.doc)
      /\ "report_latest" \in Range(log) =>
           /\ "report_ts" \in Range(log)
           /\ Position("report_ts") < Position("report_latest")
      /\ \A k \in 1..Len(past) :
           past[k].stamped => StampedFile(past[k].stamp) = File(past[k].doc)

-----------------------------------------------------------------------------
(* Properties of the reporter, continued *)

\* what a stretch of tags leaves unmatched: the tags it closes without
\* having opened them, the tags it opens without closing them, and whether
\* every closing tag inside it that met an open tag met its own
JoinNesting(l, r) ==
    LET m == Min(Len(l.opens), Len(r.closes))
    IN  [ok     |-> /\ l.ok /\ r.ok
                    /\ \A k \in 1..m : l.opens[Len(l.opens) + 1 - k] = r.closes[k],
         closes |-> l.closes \o SubSeq(r.closes, m + 1, Len(r.closes)),
         opens  |-> SubSeq(l.opens, 1, Len(l.opens) - m) \o r.opens]

RECURSIVE Nesting(_, _, _)
Nesting(tags, from, upto) ==
    IF from > upto THEN [ok |-> TRUE, closes |-> <<>>, opens |-> <<>>]
    ELSE IF from = upto
         THEN IF tags[from].open
              THEN [ok |-> TRUE, closes |-> <<>>, opens |-> <<tags[from].tag>>]
              ELSE [ok |-> TRUE, closes |-> <<tags[from].tag>>, opens |-> <<>>]
         ELSE LET mid == (from + upto) \div 2
              IN  JoinNesting(Nesting(tags, from, mid), Nesting(tags, mid + 1, upto))

\* every closing tag closes the innermost open tag, and none stays open
Balanced(tags) ==
    Nesting(tags, 1, Len(tags)) = [ok |-> TRUE, closes |-> <<>>, opens |-> <<>>]

\* C14: in the document render_html writes, every opened table, thead, tbody,
\* tr, td, th and section tag is closed in proper nesting, whatever the texts
\* of the bundle.
C14_DocumentWellFormed ==
    HtmlWritten => Balanced(fs["report_ts"].rows.tags)

\* the rows eligible for top_rated
Eligible == {i \in 1..Len(anime) : ~IsNull(anime[i].rating) /\ anime[i].members >= 1000}

\* C15: top_rated holds only rows with a rating and members >= 1000, as many
\* as there are up to 10, ranked 1, 2, ... by non-increasing rating, and no
\* eligible row left out is rated higher than a listed one; top_popular
\* takes rows of any members value, by non-increasing members.
C15_TopLists ==
    Fetched =>
      LET tr == data.top_rated
          tp == data.top_popular
          listed == {tr[k].name : k \in 1..Len(tr)}
          popular == {tp[k].name : k \in 1..Len(tp)}
      IN  /\ listed \subseteq Eligible
          /\ Len(tr) = Min(10, Cardinality(Eligible))
          /\ Cardinality(listed) = Len(tr)
          /\ \A k \in 1..Len(tr) :
                /\ tr[k].rank = k
                /\ tr[k].rating = anime[tr[k].name].rating
                /\ tr[k].members = anime[tr[k].name].members
          /\ \A k \in 1..(Len(tr) - 1) : Val(tr[k].rating) >= Val(tr[k + 1].rating)
          /\ \A i \in Eligible \ listed : \A k \in 1..Len(tr) :
                Val(anime[i].rating) <= Val(tr[k].rating)
          /\ Len(tp) = Min(10, Len(anime))
          /\ Cardinality(popular) = Len(tp)
          /\ \A k \in 1..Len(tp) : tp[k].rank = k /\ tp[k].members = anime[tp[k].name].members
          /\ \A k \in 1..(Len(tp) - 1) : tp[k].members >= tp[k + 1].members
          /\ \A i \in (1..Len(anime)) \ popular : \A k \in 1..Len(tp) :
                anime[i].members <= tp[k].members

\* more than 10 eligible rows, beside a row that is not eligible
C15_Witness ==
    /\ Fetched
    /\ Cardinality(Eligible) > 10
    /\ Len(data.top_rated) = 10
    /\ Cardinality(Eligible) < Len(anime)

-----------------------------------------------------------------------------
(* Frame properties of both scripts *)

\* how often a file was written in this run
TimesWritten(f) == Cardinality({k \in 1..Len(log) : log[k] = f})

\* what a step of a script leaves alone, and what it has written so far
FrameOfStep ==
    /\ (script = "eda" /\ past' = past) =>
          /\ \A f \in Files \ EdaOutputs : fs'[f] = fs[f]
          /\ \A f \in Files \ EdaOutputs : TimesWritten(f)' = 0
    /\ (script = "preprocess" /\ run' = run) =>
          /\ \A f \in PreInputs : fs'[f] = fs[f]
          /\ \A f \in Files \ PreOutputs : TimesWritten(f)' = 0
          /\ \A f \in PreOutputs : TimesWritten(f)' <= 1
          /\ pc' = "done" => \A f \in PreOutputs : TimesWritten(f)' = 1

\* C16: no step of the reporter creates, modifies or deletes a file other
\* than the timestamped and the latest report, the file --data names
\* included; no step of the preprocessor modifies a raw input file, and a
\* run of the preprocessor writes each of its four output files exactly once.
C16_InputsReadOnlyOutputsWrittenOnce == [][FrameOfStep]_vars

\* the reporter has written both reports beside its input file
C16_Witness ==
    /\ script = "eda" /\ pc = "done"
    /\ fs["anime_processed"] = File(anime) /\ anime # <<>>
    /\ TimesWritten("report_ts") = 1 /\ TimesWritten("report_latest") = 1

-----------------------------------------------------------------------------
(* Properties of the preprocessor, continued *)

\* a cell of a raw CSV file that read_csv takes for a missing value
MissingCell(text) == text \in NaValues

\* the raw anime records with a rating and a genre
CompleteAnime ==
    {j \in 1..Len(RawAnimeIn) :
        ~IsNull(RawAnimeIn[j].rating) /\ ~MissingCell(RawAnimeIn[j].genre)}

\* the raw rating records the claim keeps, in file order
RatingsToKeep ==
    SelectSeq(RawRatingIn,
              LAMBDA r : /\ r.rating # -1
                         /\ \E j \in CompleteAnime : RawAnimeIn[j].anime_id = r.anime_id)

Triple(r) == <<r.user_id, r.anime_id, r.rating>>

\* C17: the rows of rating_processed.csv are exactly the raw rating records
\* with a rating other than -1 and the anime_id of a raw anime record that
\* has a rating and a genre, each once.
C17_ExactlyRatedKnownRatingsKept ==
    PreDone =>
      [k \in 1..Len(RatingOut) |-> Triple(RatingOut[k])]
        = [k \in 1..Len(RatingsToKeep) |-> Triple(RatingsToKeep[k])]

\* of two rated records of two users, one is kept and the one of an anime
\* without a complete record is dropped
C17_Witness ==
    /\ PreDone /\ run = 1
    /\ Len(RawRatingIn) = 2 /\ Len(RatingOut) = 1
    /\ RawRatingIn[1].rating # -1 /\ RawRatingIn[2].rating # -1
    /\ RawRatingIn[1].user_id # RawRatingIn[2].user_id


\* the (row, tag occurrence) pairs of the table: row i with a genre, piece k
\* of its genre split on commas
TagOccurrences ==
    UNION {{<<i, k>> : k \in 1..Len(Val(anime[i].genre))} :
             i \in {j \in 1..Len(anime) : ~IsNull(anime[j].genre)}}

TagOf(o) == Trim(Val(anime[o[1]].genre)[o[2]])
AllTags == {TagOf(o) : o \in TagOccurrences}

\* the tags of the occurrences, one entry per occurrence
TagList ==
    Concat([i \in 1..Len(anime) |->
              IF IsNull(anime[i].genre) THEN <<>>
              ELSE [k \in 1..Len(Val(anime[i].genre)) |-> TagOf(<<i, k>>)]])

\* C18: genre_stats has one group per trimmed tag, counted by occurrences
\* over the rows with a genre; it lists min(20, number of tags) groups in
\* non-increasing count order and omits no tag with a greater count than a
\* listed one.
C18_GenreStatsTopTwentyTags ==
    Fetched =>
      LET gs     == data.genre_stats
          listed == {gs[k].genre : k \in 1..Len(gs)}
          occ    == TagList
          tags   == Range(occ)
          count  == [tag \in tags |-> Cardinality({o \in 1..Len(occ) : occ[o] = tag})]
          least  == IF gs = <<>> THEN 0 ELSE gs[Len(gs)].count
      IN  /\ Len(gs) = Min(TopGenres, Cardinality(tags))
          /\ \A k \in 1..Len(gs) :
                /\ gs[k].genre \in tags
                /\ gs[k].count = count[gs[k].genre]
          /\ Cardinality(listed) = Len(gs)
          /\ \A k \in 1..(Len(gs) - 1) : gs[k].count >= gs[k + 1].count
          /\ \A tag \in tags \ listed : count[tag] <= least

\* more than 20 tags, one of them written with and without a leading space
\* in two rows, and the list cut at 20
C18_Witness ==
    /\ Fetched
    /\ Cardinality(AllTags) > TopGenres
    /\ Len(data.genre_stats) = TopGenres
    /\ \E o \in TagOccurrences, q \in TagOccurrences :
          /\ o[1] # q[1] /\ TagOf(o) = TagOf(q)
          /\ Val(anime[o[1]].genre)[o[2]] # Val(anime[q[1]].genre)[q[2]]


\* the raw anime records the claim keeps, in file order: a rating, a genre
\* and at least one surviving rating record
AnimeToKeep ==
    SelectSeq(RawAnimeIn,
              LAMBDA a : /\ ~IsNull(a.rating) /\ ~MissingCell(a.genre)
                         /\ \E k \in 1..Len(RatingsToKeep) :
                               RatingsToKeep[k].anime_id = a.anime_id)

\* C19: anime_processed.csv holds exactly the raw anime records with a
\* rating, a genre and a surviving rating record; its anime_id values are the
\* keys of anime_id_map.csv and every row has an anime_idx.
C19_ExactlyRatedCompleteAnimeKept ==
    PreDone =>
      /\ [j \in 1..Len(AnimeOut) |-> AnimeOut[j].anime_id]
           = [j \in 1..Len(AnimeToKeep) |-> AnimeToKeep[j].anime_id]
      /\ {AnimeOut[j].anime_id : j \in 1..Len(AnimeOut)}
           = {AnimeMapOut[m].id : m \in 1..Len(AnimeMapOut)}
      /\ \A j \in 1..Len(AnimeOut) : ~IsNull(AnimeOut[j].anime_idx)

\* a complete anime record whose only rating records are -1 is dropped
C19_Witness ==
    /\ PreDone /\ run = 1
    /\ Len(RawAnimeIn) = 1 /\ Len(AnimeOut) = 0
    /\ ~IsNull(RawAnimeIn[1].rating) /\ ~MissingCell(RawAnimeIn[1].genre)
    /\ Len(RawRatingIn) > 0
    /\ \A k \in 1..Len(RawRatingIn) :
          RawRatingIn[k].anime_id = RawAnimeIn[1].anime_id /\ RawRatingIn[k].rating = -1


-----------------------------------------------------------------------------
(* Properties of the reporter, continued *)

\* the table given to the reporter has no row with a rating
NoRatedRow == \A i \in 1..Len(anime) : IsNull(anime[i].rating)

\* C20: on a table with no rated row the reporter fails in every --report
\* mode before any renderer has produced output, and neither HTML file is
\* created or modified.
C20_UnratedTableFailsBeforeOutput ==
    (script = "eda" /\ NoRatedRow) =>
      /\ pc \notin {"write_latest", "done"}
      /\ console = <<>>
      /\ fs["report_ts"] = fs0["report_ts"]
      /\ fs["report_latest"] = fs0["report_latest"]
====
